---- MODULE Spec2Model ----
(***************************************************************************)
(* The playlist execution engine of wiphala-service: PlaylistsService      *)
(* (trigger / start / run / segue / deliver / crash), PluginsService       *)
(* (run / invokePlugin), ClientFactory.createClient and getHostAndPort.    *)
(*                                                                         *)
(* Every request handler is an async function.  A handler is modelled as a *)
(* task whose pc names the store or network call it is suspended on; one   *)
(* action is the effect of that call together with the synchronous code    *)
(* that runs when the call resolves, up to the next suspension.            *)
(*                                                                         *)
(* Nullable values (T | null) are sequences of length at most one:         *)
(* <<>> is null / undefined, <<v>> is the value v.                         *)
(***************************************************************************)
EXTENDS Integers, Sequences, FiniteSets, TLC

\* --------------------------------------------------------------- bounds

\* Number of calls (trigger, segue, crash) that reach a strategy or a run.
MaxOps == 4

\* Number of Playlist rows the Run Store may hold.
MaxRuns == 1

\* Number of rows where runs are set side by side.
MaxPair == 2

\* Handlers that may be suspended at the same time.
Tasks == {1, 2}

\* ------------------------------------------------------------ constants

\* SQL NULL of the nullable integer columns current_slot_id and
\* default_next_slot_id.
NULL == 0

CREATED == "CREATED"
RUNNING == "RUNNING"
FAILED == "FAILED"
COMPLETE == "COMPLETE"
PlaylistStatus == {CREATED, RUNNING, FAILED, COMPLETE}

\* --------------------------------------------------------------- inputs

\* JSON texts a caller may send as trigger metadata or segue output.
MetadataTexts == {"7", "{"}
OutputTexts == {"1", "2", "{"}

\* A parser that gives a value for every text.
JSONParseAny(text) ==
    CASE text = "1" -> <<1>>
      [] text = "2" -> <<2>>
      [] text = "3" -> <<3>>
      [] text = "7" -> <<7>>
      [] OTHER -> <<0>>

\* JSON.parse: the parsed value, or <<>> where it throws a SyntaxError.
JSONParse(text) ==
    CASE text = "1" -> <<1>>
      [] text = "2" -> <<2>>
      [] text = "3" -> <<3>>
      [] text = "7" -> <<7>>
      [] OTHER -> <<>>

\* Origins a caller may pass to trigger.
Origins == {"http://client:50052", "client"}

\* A getHostAndPort that gives a host and a port for every input.
getHostAndPortAny(input) == <<[hostname |-> "client", port |-> 50052]>>

\* getHostAndPort: new URL(input) gives hostname and port, or it throws and
\* the function throws `Invalid URL` (<<>>).
getHostAndPort(input) ==
    CASE input = "http://client:50052" -> <<[hostname |-> "client", port |-> 50052]>>
      [] OTHER -> <<>>

\* The environment of the process: the variables of process.env that
\* network.ts reads (<<>> where one is not set) and the IPv4 addresses
\* os.networkInterfaces() lists, each internal or not.
Deployed ==
    [TALKBACK_FQDN |-> <<"talkback">>, SERVICE_FQDN |-> <<"service">>,
     GRPC_PORT |-> <<>>,
     nets |-> <<[address |-> "127.0.0.1", internal |-> TRUE],
                [address |-> "10.0.0.5", internal |-> FALSE]>>]

Environments ==
    [TALKBACK_FQDN : {<<>>, <<"talkback">>},
     SERVICE_FQDN : {<<>>, <<"service">>},
     GRPC_PORT : {<<>>, <<"50055">>},
     nets : {<<[address |-> "127.0.0.1", internal |-> TRUE]>>,
             Deployed.nets}]

\* Number(process.env.GRPC_PORT) || 50051.
grpcPort(env) ==
    IF env.GRPC_PORT = <<"50055">> THEN 50055 ELSE 50051

\* getLocalIp: the first address that is not internal, or 127.0.0.1.
RECURSIVE getLocalIpFrom(_, _)
getLocalIpFrom(nets, i) ==
    IF i > Len(nets) THEN "127.0.0.1"
    ELSE IF ~nets[i].internal THEN nets[i].address
    ELSE getLocalIpFrom(nets, i + 1)

getLocalIp(env) == getLocalIpFrom(env.nets, 1)

\* `${value}` in a template literal: an undefined value reads "undefined".
Interpolate(value) == IF value = <<>> THEN "undefined" ELSE value[1]

\* getGrpcTalkbackEndpoint: with SERVICE_FQDN set the host is
\* TALKBACK_FQDN, otherwise the local address.
getGrpcTalkbackEndpoint(env) ==
    IF env.SERVICE_FQDN # <<>>
    THEN "http://" \o Interpolate(env.TALKBACK_FQDN) \o ":" \o ToString(grpcPort(env))
    ELSE "http://" \o getLocalIp(env) \o ":" \o ToString(grpcPort(env))

\* ----------------------------------------------------- strategy catalog

Slot(id, plugins_id, next) ==
    [id |-> id, plugins_id |-> plugins_id, default_next_slot_id |-> next]

\* The strategies table with its slots, as findBySlug includes them.  The
\* slots of a strategy come in the order the store returns them, which is
\* not the order of the chain.  Nothing in the schema ties root_slot or
\* default_next_slot_id to the slots of the strategy.
Catalog ==
    [lin3 |-> [id |-> 1, root_slot |-> 1,
               slots |-> <<Slot(2, 12, 3), Slot(1, 11, 2), Slot(3, 13, NULL)>>],
     lin2 |-> [id |-> 2, root_slot |-> 4,
               slots |-> <<Slot(4, 11, 7), Slot(7, 12, NULL)>>],
     dangling |-> [id |-> 3, root_slot |-> 5,
                   slots |-> <<Slot(5, 12, 9)>>],
     noroot |-> [id |-> 4, root_slot |-> 8,
                 slots |-> <<Slot(6, 13, NULL)>>]]

StrategySlugs == DOMAIN Catalog \cup {"nope"}

\* The strategies of the catalog that are chains ending in null.
ChainSlugs == {"lin3", "lin2"}

\* A strategy after a change made through the management interface: its
\* slots re-linked (here every link cut), its last slot removed, a slot
\* added.
Relinked(strategy) ==
    [strategy EXCEPT !.slots =
        [i \in DOMAIN @ |-> [@[i] EXCEPT !.default_next_slot_id = NULL]]]

Shortened(strategy) ==
    [strategy EXCEPT !.slots = SubSeq(@, 1, Len(@) - 1)]

Extended(strategy) ==
    [strategy EXCEPT !.slots = Append(@, Slot(20, 11, strategy.root_slot))]

Changes(strategy) == {Relinked(strategy), Shortened(strategy), Extended(strategy)}

\* toJSON of slots that come with an output already set.
toJSONWithOutput(slot) ==
    [id |-> slot.id, plugins_id |-> slot.plugins_id,
     default_next_slot_id |-> slot.default_next_slot_id, output |-> <<0>>]

\* toJSON that drops the link to the next slot.
toJSONUnlinked(slot) ==
    [id |-> slot.id, plugins_id |-> slot.plugins_id,
     default_next_slot_id |-> NULL, output |-> <<>>]

\* Slot.toJSON as stored in the context: a plain copy, `output` not set.
toJSON(slot) ==
    [id |-> slot.id, plugins_id |-> slot.plugins_id,
     default_next_slot_id |-> slot.default_next_slot_id, output |-> <<>>]

\* Array.prototype.findIndex on item.id; 0 stands for -1 (indices are
\* 1-based here).
RECURSIVE findIndexFrom(_, _, _)
findIndexFrom(sequence, id, i) ==
    IF i > Len(sequence) THEN 0
    ELSE IF sequence[i].id = id THEN i
    ELSE findIndexFrom(sequence, id, i + 1)

\* findIndex that falls back to the first item where no id matches.
findIndexOrFirst(sequence, id) ==
    IF findIndexFrom(sequence, id, 1) = 0 /\ Len(sequence) > 0 THEN 1
    ELSE findIndexFrom(sequence, id, 1)

findIndex(sequence, id) == findIndexFrom(sequence, id, 1)

\* nanoid(): a fresh token for every row.
nanoid(id) == "r" \o ToString(id)

RunSlugs == {nanoid(i) : i \in 0..MaxRuns}

\* ---------------------------------------------------------------- state

VARIABLES
    strategies,   \* Strategy Catalog: slug -> strategy with its slots
    playlists,    \* Run Store: id -> Playlist row
    contexts,     \* Context Store: id -> PlaylistContext document
    tasks,        \* the handlers: task -> its position and locals
    dispatches,   \* id -> the slots invokePlugin was called for, in order
    submitted,    \* id -> the outputs of the segues that returned, in order
    disturbed,    \* id -> the crashes and failed calls on the run: 0, 1 or more
    before,       \* the stores when the last request arrived
    last,         \* the call that returned or threw since the last request
    delivered,    \* the deliver promise that settled since the last request
    ops,          \* the calls so far that reached a strategy or a run
    env           \* the environment the process was started in

vars == <<strategies, playlists, contexts, tasks, dispatches, submitted,
          disturbed, before, last, delivered, ops, env>>

IdleTask ==
    [op |-> "none", pc |-> "idle", call |-> 0,
     slug |-> "", data |-> "", origin |-> "",
     strategy |-> <<>>, previous |-> <<>>, playlist |-> <<>>, context |-> <<>>,
     currentSlot |-> 0, worker |-> "none", talkback |-> "",
     delivery |-> [cause |-> "none", value |-> "none"],
     result |-> "none", error |-> "none"]

NoCall ==
    [op |-> "none", call |-> 0, slug |-> "", id |-> 0,
     result |-> "none", error |-> "none", status |-> "", run |-> "",
     data |-> "", worker |-> "none", deliver |-> FALSE, payload |-> <<>>]

NoDelivery == [call |-> 0, id |-> 0, cause |-> "none", value |-> "none"]

Stores ==
    [strategies |-> strategies, playlists |-> playlists, contexts |-> contexts,
     dispatches |-> dispatches]

\* The stores are empty and no request has arrived.
Started ==
    /\ strategies = Catalog
    /\ playlists = <<>>
    /\ contexts = <<>>
    /\ tasks = [t \in Tasks |-> IdleTask]
    /\ dispatches = <<>>
    /\ submitted = <<>>
    /\ disturbed = <<>>
    /\ before = Stores
    /\ last = NoCall
    /\ delivered = NoDelivery
    /\ ops = 0

Init == Started /\ env = Deployed

\* ------------------------------------------------------ store operations

\* findBySlug that gives some strategy where the slug matches none.
findBySlugOrAny(slug) ==
    IF slug \in DOMAIN strategies THEN <<strategies[slug]>>
    ELSE <<strategies[CHOOSE any \in DOMAIN strategies : TRUE]>>

\* StrategiesService.findBySlug: the strategy with its slots, or null.
findBySlug(slug) ==
    IF slug \in DOMAIN strategies THEN <<strategies[slug]>> ELSE <<>>

\* getPlaylist without the where clause: some playlist, if there is one.
getPlaylistAny(slug) ==
    IF playlists # <<>> THEN <<playlists[1]>> ELSE <<>>

\* PlaylistsService.getPlaylist: playlist.findOne({ where: { slug } }).
getPlaylist(slug) ==
    IF \E id \in DOMAIN playlists : playlists[id].slug = slug
    THEN <<playlists[CHOOSE id \in DOMAIN playlists : playlists[id].slug = slug]>>
    ELSE <<>>

\* context.findOne({ id }).
contextFindOne(id) ==
    IF id \in DOMAIN contexts THEN <<contexts[id]>> ELSE <<>>

\* An UPDATE without its where clause: it sets the fields in every row.
UpdateEveryRow(rows, id, fields) ==
    [r \in DOMAIN rows |->
        [f \in DOMAIN rows[r] |-> IF f \in DOMAIN fields THEN fields[f] ELSE rows[r][f]]]

\* An UPDATE of the row `id` that sets the given fields; a row that does
\* not exist is not created.
UpdateRow(rows, id, fields) ==
    IF id \in DOMAIN rows
    THEN [rows EXCEPT ![id] =
            [f \in DOMAIN @ |-> IF f \in DOMAIN fields THEN fields[f] ELSE @[f]]]
    ELSE rows

\* ------------------------------------------------------------- handlers

\* A trigger or segue handler is suspended (a Deliver call that a returned
\* segue left open is not part of the segue).
InFlight(task) == task.pc \notin {"idle", "client.deliver"}

\* No trigger, segue or crash is being processed.
Quiescent == \A t \in Tasks : ~InFlight(tasks[t])

Free(t) == tasks[t].pc = "idle"

RunsStarting == Cardinality({t \in Tasks : tasks[t].pc = "playlist.create"})

\* A trigger of this strategy keeps the number of runs within `runs`.
RoomFor(slug, runs) ==
    findBySlug(slug) # <<>> => Len(playlists) + RunsStarting < runs

\* The number of the call that arrives, for telling the calls apart that are
\* processed one at a time: a call that reaches a strategy or a run gets
\* the next number, any other call the number 0.
CallNumber(serial, found) == IF serial /\ found THEN ops + 1 ELSE 0

\* The handler of a new request.
NewTask(op, call, slug, data, origin) ==
    [IdleTask EXCEPT !.op = op, !.call = call,
                     !.slug = slug, !.data = data, !.origin = origin]

\* The handler ends by throwing `error` to its caller.
Throw(task, error) ==
    [task EXCEPT !.pc = "done", !.result = "error", !.error = error]

\* deliver without the catch on the Deliver call: its error rejects the
\* promise.
deliverSettlesUncaught(origin, client, err) ==
    IF getHostAndPort(origin) = <<>> THEN [cause |-> "InvalidURL", value |-> "rejected"]
    ELSE IF ~client THEN [cause |-> "createClient", value |-> "null"]
    ELSE IF err THEN [cause |-> "deliver", value |-> "rejected"]
    ELSE [cause |-> "none", value |-> "response"]

\* How the promise deliver() returned settles.  deliver is an async
\* function: an `Invalid URL` thrown by getHostAndPort rejects it; without a
\* client it returns null; an error of the Deliver call rejects the inner
\* promise, whose catch returns null; a response resolves it.
deliverSettles(origin, client, err) ==
    IF getHostAndPort(origin) = <<>> THEN [cause |-> "InvalidURL", value |-> "rejected"]
    ELSE IF ~client THEN [cause |-> "createClient", value |-> "null"]
    ELSE IF err THEN [cause |-> "deliver", value |-> "null"]
    ELSE [cause |-> "none", value |-> "response"]

\* deliver awaited by segue: a deliver that fails at once fails the segue.
deliverAwaited(task, client) ==
    IF getHostAndPort(task.context[1].origin) # <<>> /\ client
    THEN [task EXCEPT !.pc = "client.deliver",
                      !.delivery = [cause |-> "none", value |-> "pending"]]
    ELSE [task EXCEPT !.pc = "done", !.result = "error", !.error = "DeliverFailed",
                      !.delivery = deliverSettles(task.context[1].origin,
                                                  client, FALSE)]

\* PlaylistsService.deliver up to the Deliver call; segue does not await it.
deliver(task, client) ==
    IF getHostAndPort(task.context[1].origin) # <<>> /\ client
    THEN [task EXCEPT !.pc = "client.deliver",
                      !.delivery = [cause |-> "none", value |-> "pending"]]
    ELSE [task EXCEPT !.pc = "done",
                      !.delivery = deliverSettles(task.context[1].origin,
                                                  client, FALSE)]

\* A segue that calls deliver only where the run is complete.
ReturnDeliverOnComplete(task, clientD) ==
    IF task.op = "trigger" \/ task.playlist[1].current_slot_id # NULL
    THEN [task EXCEPT !.pc = "done", !.result = "ok"]
    ELSE deliver([task EXCEPT !.result = "ok"], clientD)

\* The rest of a handler once run() has returned: start() returns the
\* playlist and trigger returns its slug and status; segue calls deliver
\* and returns { success: true }.
Return(task, clientD) ==
    IF task.op = "trigger"
    THEN [task EXCEPT !.pc = "done", !.result = "ok"]
    ELSE deliver([task EXCEPT !.result = "ok"], clientD)

\* PluginsService.run without the catch around invokePlugin and with an
\* invokePlugin that throws where it has no client.
pluginsService_runUncaught(task, clientW, clientD) ==
    IF findIndex(task.context[1].sequence, task.playlist[1].current_slot_id) = 0
    THEN Throw(task, "CurrentSlotNotFound")
    ELSE IF ~clientW
    THEN Throw([task EXCEPT !.worker = "createClient"], "DispatchFailed")
    ELSE [task EXCEPT !.pc = "client.performTask", !.worker = "pending",
                      !.talkback = getGrpcTalkbackEndpoint(env)]

\* PluginsService.run that skips a current slot it does not find: the
\* handler goes on as after a dispatch without a client.
pluginsService_runSkipsMissing(task, clientW, clientD) ==
    IF findIndex(task.context[1].sequence, task.playlist[1].current_slot_id) = 0
    THEN Return(task, clientD)
    ELSE IF ~clientW
    THEN Return([task EXCEPT !.worker = "createClient"], clientD)
    ELSE [task EXCEPT !.pc = "client.performTask", !.worker = "pending",
                      !.talkback = getGrpcTalkbackEndpoint(env)]

\* PluginsService.run that hands invokePlugin the slots without their
\* outputs.
pluginsService_runBareSequence(task, clientW, clientD) ==
    IF findIndex(task.context[1].sequence, task.playlist[1].current_slot_id) = 0
    THEN Throw(task, "CurrentSlotNotFound")
    ELSE IF ~clientW
    THEN Return([task EXCEPT !.worker = "createClient"], clientD)
    ELSE [task EXCEPT !.pc = "client.performTask", !.worker = "pending",
                      !.talkback = getGrpcTalkbackEndpoint(env),
                      !.context[1].sequence =
                          [i \in DOMAIN @ |-> [@[i] EXCEPT !.output = <<>>]]]

\* PluginsService.run with invokePlugin up to the performTask call: the
\* current slot is looked up in the handler's copy of the sequence;
\* `Current slot not found` is thrown and leaves the handler; without a
\* client invokePlugin returns null and the handler goes on.
pluginsService_run(task, clientW, clientD) ==
    IF findIndex(task.context[1].sequence, task.playlist[1].current_slot_id) = 0
    THEN Throw(task, "CurrentSlotNotFound")
    ELSE IF ~clientW
    THEN Return([task EXCEPT !.worker = "createClient"], clientD)
    ELSE [task EXCEPT !.pc = "client.performTask", !.worker = "pending",
                      !.talkback = getGrpcTalkbackEndpoint(env)]

\* run without the update of the status.
runWithoutUpdate(task, clientW, clientD) ==
    pluginsService_run(task, clientW, clientD)

\* run that updates the status whatever it is.
runAlwaysUpdates(task, clientW, clientD) ==
    [task EXCEPT !.pc = "playlist.update"]

\* PlaylistsService.run before its first suspension: a playlist whose
\* status is not RUNNING is updated first.
run(task, clientW, clientD) ==
    IF task.playlist[1].status # RUNNING
    THEN [task EXCEPT !.pc = "playlist.update"]
    ELSE pluginsService_run(task, clientW, clientD)

\* ---------------------------------------------------------- bookkeeping

RunOf(task) == IF task.playlist = <<>> THEN 0 ELSE task.playlist[1].id

\* What the caller of a finished call has seen, and what the call did.
CallOf(task) ==
    [op |-> task.op, call |-> task.call, slug |-> task.slug, id |-> RunOf(task),
     result |-> task.result, error |-> task.error,
     status |-> IF task.op = "trigger" /\ task.result = "ok"
                THEN task.playlist[1].status ELSE "",
     run |-> IF task.op = "trigger" /\ task.result = "ok"
             THEN task.playlist[1].slug ELSE "",
     data |-> IF task.op = "segue" THEN task.data ELSE "",
     worker |-> task.worker, deliver |-> task.delivery.value # "none",
     payload |-> IF task.delivery.value # "none" THEN task.playlist ELSE <<>>]

At(f, id) == IF id \in DOMAIN f THEN f[id] ELSE <<>>

AppendTo(f, id, e) ==
    [i \in DOMAIN f \cup {id} |-> IF i = id THEN Append(At(f, id), e) ELSE f[i]]

Disturbances(id) == IF id \in DOMAIN disturbed THEN disturbed[id] ELSE 0

\* One more crash or failed call on the run; 2 stands for two or more.
Disturb(id) ==
    [i \in DOMAIN disturbed \cup {id} |->
        IF i # id THEN disturbed[i]
        ELSE IF Disturbances(id) = 0 THEN 1 ELSE 2]

Returns(old, new) == old.result = "none" /\ new.result # "none"

\* The task moves from tasks[t] to `new`.  A call that returns or throws
\* becomes the last call; the output of a segue that returns is appended to
\* the submitted outputs of its run and a call that throws disturbs it; a
\* call of invokePlugin is appended to the dispatches of the run; a deliver promise
\* that settles becomes the last delivery; the handler of a finished call
\* is dropped.
Step(t, new) ==
    /\ tasks' = [tasks EXCEPT ![t] =
                    IF new.pc = "done" THEN IdleTask
                    ELSE IF new.pc = "client.deliver"
                    THEN [IdleTask EXCEPT !.op = new.op, !.pc = new.pc,
                                          !.call = new.call,
                                          !.playlist = new.playlist,
                                          !.context = new.context,
                                          !.result = new.result,
                                          !.delivery = new.delivery]
                    ELSE new]
    /\ last' = IF Returns(tasks[t], new) THEN CallOf(new)
               ELSE IF tasks[t].pc = "idle" THEN NoCall
               ELSE last
    /\ submitted' = IF Returns(tasks[t], new) /\ new.op = "segue" /\ new.result = "ok"
                    THEN AppendTo(submitted, RunOf(new), JSONParse(new.data)[1])
                    ELSE submitted
    /\ disturbed' = IF Returns(tasks[t], new) /\ new.result = "error" /\ RunOf(new) # 0
                    THEN Disturb(RunOf(new))
                    ELSE disturbed
    /\ dispatches' = IF tasks[t].worker = "none" /\ new.worker # "none"
                     THEN AppendTo(dispatches, RunOf(new),
                                   new.playlist[1].current_slot_id)
                     ELSE dispatches
    /\ delivered' = IF new.pc = "done" /\ new.delivery.value # "none"
                    THEN [call |-> new.call, id |-> RunOf(new),
                          cause |-> new.delivery.cause,
                          value |-> new.delivery.value]
                    ELSE IF tasks[t].pc = "idle" THEN NoDelivery
                    ELSE delivered
    /\ env' = env

\* A request arrives at a free handler.  `serial` says that requests are
\* processed one at a time; the stores are then remembered in `before`.
Begin(t, serial, found) ==
    /\ found => ops < MaxOps
    /\ Free(t)
    /\ \A u \in Tasks : Free(u) => t <= u
    /\ serial => Quiescent
    /\ ops' = IF found THEN ops + 1 ELSE ops
    /\ before' = IF serial THEN Stores ELSE before

\* -------------------------------------------------------------- actions

\* Trigger arrives: PlaylistsService.trigger up to start(), with the
\* strategy read.  `runs` bounds the number of runs.
trigger(t, slug, context, origin, serial, runs) ==
    /\ Begin(t, serial, findBySlug(slug) # <<>>)
    /\ RoomFor(slug, runs)
    /\ LET call == CallNumber(serial, findBySlug(slug) # <<>>)
           task == [NewTask("trigger", call, slug, context, origin)
                        EXCEPT !.strategy = findBySlug(slug)]
       IN  Step(t, IF task.strategy = <<>>
                   THEN Throw(task, "StrategyNotFound")
                   ELSE [task EXCEPT !.pc = "playlist.create"])
    /\ UNCHANGED <<strategies, playlists, contexts>>

\* start: playlist.create resolves (or the store rejects it).
start_playlistCreate(t, faulty) ==
    /\ tasks[t].pc = "playlist.create"
    /\ \/ LET id == Len(playlists) + 1
              row == [id |-> id,
                      strategies_id |-> tasks[t].strategy[1].id,
                      status |-> CREATED,
                      slug |-> nanoid(id),
                      current_slot_id |-> tasks[t].strategy[1].root_slot]
          IN  /\ playlists' = Append(playlists, row)
              /\ Step(t, [tasks[t] EXCEPT !.pc = "context.create",
                                          !.previous = <<row>>,
                                          !.playlist = <<row>>])
       \/ /\ faulty
          /\ playlists' = playlists
          /\ Step(t, Throw(tasks[t], "PersistenceError"))
    /\ UNCHANGED <<strategies, contexts, before, ops>>

\* start: JSON.parse(metadata), then context.create resolves (or rejects),
\* then run() up to its first suspension.
start_contextCreate(t, faulty) ==
    /\ tasks[t].pc = "context.create"
    /\ IF JSONParse(tasks[t].data) = <<>>
       THEN /\ contexts' = contexts
            /\ Step(t, Throw(tasks[t], "SyntaxError"))
       ELSE \/ LET doc == [id |-> tasks[t].playlist[1].id,
                           metadata |-> JSONParse(tasks[t].data)[1],
                           sequence |-> [i \in DOMAIN tasks[t].strategy[1].slots |->
                                           toJSON(tasks[t].strategy[1].slots[i])],
                           origin |-> tasks[t].origin]
               IN  /\ contexts' = (doc.id :> doc) @@ contexts
                   /\ \E clientW, clientD \in BOOLEAN :
                        Step(t, run([tasks[t] EXCEPT !.context = <<doc>>],
                                    clientW, clientD))
            \/ /\ faulty
               /\ contexts' = contexts
               /\ Step(t, Throw(tasks[t], "PersistenceError"))
    /\ UNCHANGED <<strategies, playlists, before, ops>>

\* run: playlist.update({ status: RUNNING }) resolves (or rejects), then
\* pluginsService.run up to the performTask call.
run_playlistUpdate(t, faulty) ==
    /\ tasks[t].pc = "playlist.update"
    /\ \/ /\ playlists' = UpdateRow(playlists, tasks[t].playlist[1].id,
                                    [status |-> RUNNING])
          /\ \E clientW, clientD \in BOOLEAN :
               Step(t, pluginsService_run(
                         [tasks[t] EXCEPT !.playlist[1].status = RUNNING,
                                          !.previous[1].status = RUNNING],
                         clientW, clientD))
       \/ /\ faulty
          /\ playlists' = playlists
          /\ Step(t, Throw(tasks[t], "PersistenceError"))
    /\ UNCHANGED <<strategies, contexts, before, ops>>

\* invokePlugin: the performTask callback runs.  An error rejects the inner
\* promise, whose catch returns null; a response resolves it; either way
\* run() returns.
invokePlugin_callback(t) ==
    /\ tasks[t].pc = "client.performTask"
    /\ \E err, clientD \in BOOLEAN :
         Step(t, Return([tasks[t] EXCEPT
                            !.worker = IF err THEN "performTask" ELSE "response"],
                        clientD))
    /\ UNCHANGED <<strategies, playlists, contexts, before, ops>>

\* Segue arrives: PlaylistsService.segue with the playlist read by slug.
segue(t, slug, output, serial) ==
    /\ Begin(t, serial, getPlaylist(slug) # <<>>)
    /\ LET call == CallNumber(serial, getPlaylist(slug) # <<>>)
           task == [NewTask("segue", call, slug, output, "")
                        EXCEPT !.previous = getPlaylist(slug),
                               !.playlist = getPlaylist(slug)]
       IN  Step(t, IF task.playlist = <<>>
                   THEN Throw(task, "PlaylistNotFound")
                   ELSE [task EXCEPT !.pc = "context.findOne"])
    /\ UNCHANGED <<strategies, playlists, contexts>>

\* A second segue for a run arrives while the handler of a first one, the
\* last call so far, has not yet saved the playlist: it reads the same row.
segueMeanwhile(t, slug, output) ==
    /\ \E u \in Tasks :
          /\ tasks[u].op = "segue"
          /\ tasks[u].slug = slug
          /\ tasks[u].call = ops
          /\ tasks[u].pc \in {"context.findOne", "context.save", "playlist.save"}
    /\ segue(t, slug, output, FALSE)

\* The dispatches of run `id` that no segue has answered yet.
Owed(id) ==
    Len(At(dispatches, id)) - Len(At(submitted, id)) - Disturbances(id)
        - Cardinality({u \in Tasks : /\ tasks[u].op = "segue"
                                      /\ InFlight(tasks[u])
                                      /\ RunOf(tasks[u]) = id})

\* The worker of a dispatched slot reports: it sends the one segue for its
\* dispatch, while the handler that dispatched it may still be suspended.
workerSegue(t, id, output) ==
    /\ id \in DOMAIN playlists
    /\ Owed(id) > 0
    /\ segue(t, playlists[id].slug, output, FALSE)

\* What the worker of a slot reports: a number that tells the workers of a
\* chain apart.
Report(slot) == ToString(slot)

\* The worker that slot `slot` of run `id` was dispatched to sends a segue
\* with its report; it may send it again.  PlaylistSegue carries the slug
\* of the run and the output, and nothing that names the slot.
workerReports(t, id, slot, serial) ==
    /\ id \in DOMAIN playlists
    /\ \E k \in DOMAIN At(dispatches, id) : dispatches[id][k] = slot
    /\ segue(t, playlists[id].slug, Report(slot), serial)

\* The errors of `context.sequence[currentSlot].output = JSON.parse(output)`:
\* a TypeError where findIndex gave -1 (the target is undefined), a
\* SyntaxError where the text does not parse.
AssignErrors(currentSlot, output) ==
    (IF currentSlot = 0 THEN {"TypeError"} ELSE {})
        \cup (IF JSONParse(output) = <<>> THEN {"SyntaxError"} ELSE {})

\* segue: context.findOne resolves; the current slot is looked up and the
\* parsed output assigned to it in the handler's copy of the document.
segue_contextFindOne(t) ==
    /\ tasks[t].pc = "context.findOne"
    /\ LET context == contextFindOne(tasks[t].playlist[1].id)
           currentSlot == findIndex(context[1].sequence,
                                    tasks[t].playlist[1].current_slot_id)
       IN  IF context = <<>>
           THEN Step(t, Throw(tasks[t], "ContextNotFound"))
           ELSE IF AssignErrors(currentSlot, tasks[t].data) # {}
           THEN \E error \in AssignErrors(currentSlot, tasks[t].data) :
                    Step(t, Throw(tasks[t], error))
           ELSE Step(t, [tasks[t] EXCEPT
                            !.pc = "context.save",
                            !.currentSlot = currentSlot,
                            !.context = <<[context[1] EXCEPT
                                 !.sequence[currentSlot].output =
                                     JSONParse(tasks[t].data)]>>])
    /\ UNCHANGED <<strategies, playlists, contexts, before, ops>>

\* A save that sets the output only where none is set.
contextSaveIfUnset(docs, doc, currentSlot) ==
    IF doc.id \in DOMAIN docs /\ docs[doc.id].sequence[currentSlot].output = <<>>
    THEN [docs EXCEPT ![doc.id].sequence[currentSlot].output =
                          doc.sequence[currentSlot].output]
    ELSE docs

\* A save that stores the modified item as the whole sequence.
contextSaveOnlyModified(docs, doc, currentSlot) ==
    IF doc.id \in DOMAIN docs
    THEN [docs EXCEPT ![doc.id].sequence = <<doc.sequence[currentSlot]>>]
    ELSE docs

\* A save that stores the output as the metadata of the run as well.
contextSaveOutputAsMetadata(docs, doc, currentSlot) ==
    IF doc.id \in DOMAIN docs
    THEN [docs EXCEPT ![doc.id].sequence[currentSlot].output =
                          doc.sequence[currentSlot].output,
                      ![doc.id].metadata = doc.sequence[currentSlot].output[1]]
    ELSE docs

\* A save whose write is lost: the stored document stays as it is.
contextSaveLost(docs, doc, currentSlot) == docs

\* context.save after markModified(`sequence.${currentSlot}.output`): the
\* one modified path is set in the stored document.
contextSave(docs, doc, currentSlot) ==
    IF doc.id \in DOMAIN docs
    THEN [docs EXCEPT ![doc.id].sequence[currentSlot].output =
                          doc.sequence[currentSlot].output]
    ELSE docs

\* Advance without the status: the run is never set COMPLETE.
AdvancePointerOnly(playlist, nextSlot) ==
    [playlist EXCEPT !.current_slot_id = nextSlot]

\* Advance without the pointer: the run stays at its slot until it is set
\* COMPLETE.
AdvanceStatusOnly(playlist, nextSlot) ==
    [playlist EXCEPT !.status = IF nextSlot = NULL THEN COMPLETE ELSE @]

\* The handler's playlist with the next slot set, and COMPLETE when there is
\* none.
Advance(playlist, nextSlot) ==
    [playlist EXCEPT !.current_slot_id = nextSlot,
                     !.status = IF nextSlot = NULL THEN COMPLETE ELSE @]

\* A context.save that writes the handler's sequence, output included, onto
\* the slots of the run's strategy as well.
segue_contextSaveIntoCatalog(t, faulty) ==
    /\ tasks[t].pc = "context.save"
    /\ contexts' = contextSave(contexts, tasks[t].context[1], tasks[t].currentSlot)
    /\ strategies' = [slug \in DOMAIN strategies |->
                         IF strategies[slug].id = tasks[t].playlist[1].strategies_id
                         THEN [strategies[slug] EXCEPT
                                 !.slots = tasks[t].context[1].sequence]
                         ELSE strategies[slug]]
    /\ LET nextSlot == tasks[t].context[1].sequence[tasks[t].currentSlot]
                           .default_next_slot_id
       IN  Step(t, [tasks[t] EXCEPT
                      !.pc = "playlist.save",
                      !.playlist = <<Advance(tasks[t].playlist[1], nextSlot)>>])
    /\ UNCHANGED <<playlists, before, ops>>

\* segue: context.save resolves (or rejects); the next slot is read from the
\* handler's copy and set on the playlist instance.
segue_contextSave(t, faulty) ==
    /\ tasks[t].pc = "context.save"
    /\ \/ /\ contexts' = contextSave(contexts, tasks[t].context[1],
                                    tasks[t].currentSlot)
          /\ LET nextSlot == tasks[t].context[1].sequence[tasks[t].currentSlot]
                                 .default_next_slot_id
             IN  Step(t, [tasks[t] EXCEPT
                            !.pc = "playlist.save",
                            !.playlist = <<Advance(tasks[t].playlist[1], nextSlot)>>])
       \/ /\ faulty
          /\ contexts' = contexts
          /\ Step(t, Throw(tasks[t], "PersistenceError"))
    /\ UNCHANGED <<strategies, playlists, before, ops>>

\* Model.changed(): the attributes of the instance whose value differs from
\* the one last read or saved.
changed(previous, playlist) ==
    {f \in {"status", "current_slot_id"} : playlist[f] # previous[f]}

\* A save that marks the run FAILED as it sets the pointer.
playlistSaveAsFailed(rows, previous, playlist) ==
    UpdateRow(rows, playlist.id,
              [status |-> FAILED, current_slot_id |-> playlist.current_slot_id])

\* A save that writes the status only and leaves the pointer of the row.
playlistSaveStatusOnly(rows, previous, playlist) ==
    UpdateRow(rows, playlist.id,
              [f \in changed(previous, playlist) \ {"current_slot_id"} |-> playlist[f]])

\* playlist.save of an instance that is not new: the UPDATE sets the
\* changed attributes of its row.
playlistSave(rows, previous, playlist) ==
    UpdateRow(rows, playlist.id,
              [f \in changed(previous, playlist) |-> playlist[f]])

\* segue: playlist.save resolves (or rejects); with a next slot run() is
\* entered, without one deliver is called and segue returns.
segue_playlistSave(t, faulty) ==
    /\ tasks[t].pc = "playlist.save"
    /\ \/ /\ playlists' = playlistSave(playlists, tasks[t].previous[1],
                                       tasks[t].playlist[1])
          /\ LET task == [tasks[t] EXCEPT !.previous = tasks[t].playlist]
             IN  \E clientW, clientD \in BOOLEAN :
                   Step(t, IF task.playlist[1].current_slot_id # NULL
                           THEN run(task, clientW, clientD)
                           ELSE Return(task, clientD))
       \/ /\ faulty
          /\ playlists' = playlists
          /\ Step(t, Throw(tasks[t], "PersistenceError"))
    /\ UNCHANGED <<strategies, contexts, before, ops>>

\* deliver: the Deliver callback runs and the promise settles.
deliver_callback(t) ==
    /\ tasks[t].pc = "client.deliver"
    /\ \E err \in BOOLEAN :
         Step(t, [tasks[t] EXCEPT
                    !.pc = "done",
                    !.delivery = deliverSettles(tasks[t].context[1].origin,
                                                TRUE, err)])
    /\ UNCHANGED <<strategies, playlists, contexts, before, ops>>

\* A crash that takes the run off its slot as well.
crashResetsPointer(id, serial) ==
    /\ id \in DOMAIN playlists
    /\ serial => Quiescent
    /\ ops < MaxOps
    /\ ops' = ops + 1
    /\ before' = IF serial THEN Stores ELSE before
    /\ playlists' = UpdateRow(playlists, id,
                              [status |-> FAILED, current_slot_id |-> NULL])
    /\ disturbed' = Disturb(id)
    /\ last' = [NoCall EXCEPT !.op = "crash", !.call = CallNumber(serial, TRUE),
                              !.id = id, !.result = "ok"]
    /\ delivered' = NoDelivery
    /\ UNCHANGED <<strategies, contexts, tasks, dispatches, submitted, env>>

\* PlaylistsService.crash(playlist): playlist.update({ status: FAILED,
\* updatedAt }) on the row of the instance handed in.
crash(id, serial) ==
    /\ id \in DOMAIN playlists
    /\ serial => Quiescent
    /\ ops < MaxOps
    /\ ops' = ops + 1
    /\ before' = IF serial THEN Stores ELSE before
    /\ playlists' = UpdateRow(playlists, id, [status |-> FAILED])
    /\ disturbed' = Disturb(id)
    /\ last' = [NoCall EXCEPT !.op = "crash", !.call = CallNumber(serial, TRUE),
                              !.id = id, !.result = "ok"]
    /\ delivered' = NoDelivery
    /\ UNCHANGED <<strategies, contexts, tasks, dispatches, submitted, env>>

\* The management interface changes a strategy of the catalog (once per
\* strategy here).  The service only reads the catalog.
updateStrategy(slug, strategy) ==
    /\ slug \in DOMAIN strategies
    /\ strategies[slug] = Catalog[slug]
    /\ strategy \in Changes(strategies[slug])
    /\ strategies' = [strategies EXCEPT ![slug] = strategy]
    /\ UNCHANGED <<playlists, contexts, tasks, dispatches, submitted, disturbed,
                   before, last, delivered, ops, env>>

\* ------------------------------------------------------- specifications

\* The handlers a request can be given to: Begin admits no other.
Ready(serial) ==
    {t \in Tasks : /\ Free(t)
                   /\ \A u \in Tasks : Free(u) => t <= u
                   /\ serial => Quiescent}

Requests(serial) ==
    \/ \E t \in Ready(serial), slug \in StrategySlugs, context \in MetadataTexts,
          origin \in Origins : trigger(t, slug, context, origin, serial, MaxRuns)
    \/ \E t \in Ready(serial), slug \in RunSlugs, output \in OutputTexts :
          segue(t, slug, output, serial)
    \/ \E id \in 1..MaxRuns : crash(id, serial)

\* The handlers go on.  `faulty` says that the stores may reject a write.
Resumptions(faulty) ==
    \/ \E t \in Tasks : start_playlistCreate(t, faulty)
    \/ \E t \in Tasks : start_contextCreate(t, faulty)
    \/ \E t \in Tasks : run_playlistUpdate(t, faulty)
    \/ \E t \in Tasks : invokePlugin_callback(t)
    \/ \E t \in Tasks : segue_contextFindOne(t)
    \/ \E t \in Tasks : segue_contextSave(t, faulty)
    \/ \E t \in Tasks : segue_playlistSave(t, faulty)
    \/ \E t \in Tasks : deliver_callback(t)

\* Requests arrive at any time and their handlers interleave at every
\* suspension.
Next == Requests(FALSE) \/ Resumptions(FALSE)

Spec == Init /\ [][Next]_vars

\* Requests are processed one at a time: a request arrives only when no
\* handler is suspended.
NextSeq == Requests(TRUE) \/ Resumptions(FALSE)

SpecSeq == Init /\ [][NextSeq]_vars

\* Requests on the chains are processed one at a time while the catalog
\* changes at any moment.
NextCatalog ==
    \/ \E t \in Tasks, slug \in ChainSlugs :
          trigger(t, slug, "7", "http://client:50052", TRUE, MaxRuns)
    \/ \E t \in Tasks, slug \in RunSlugs : segue(t, slug, "1", TRUE)
    \/ \E slug \in ChainSlugs :
          \E strategy \in Changes(Catalog[slug]) : updateStrategy(slug, strategy)
    \/ Resumptions(FALSE)

SpecCatalog == Init /\ [][NextCatalog]_vars

\* Requests on the chains are processed one at a time, except that a second
\* segue for a run may arrive while a first one is being processed.
NextRace ==
    \/ \E t \in Tasks, slug \in ChainSlugs :
          trigger(t, slug, "7", "http://client:50052", TRUE, MaxRuns)
    \/ \E t \in Tasks, slug \in RunSlugs, output \in {"1", "2"} :
          segue(t, slug, output, TRUE)
    \/ \E t \in Tasks, slug \in RunSlugs, output \in {"1", "2"} :
          segueMeanwhile(t, slug, output)
    \/ Resumptions(FALSE)

SpecRace == Init /\ [][NextRace]_vars

\* One run of a chain: Trigger is called, and the only segues are those of
\* the workers, one for each dispatch.
NextLive ==
    \/ \E t \in Tasks, slug \in ChainSlugs, context \in MetadataTexts,
          origin \in Origins : trigger(t, slug, context, origin, FALSE, 1)
    \/ \E t \in Tasks, id \in 1..MaxRuns, output \in OutputTexts :
          workerSegue(t, id, output)
    \/ Resumptions(FALSE)

\* The stores and the clients answer every call and the event loop resumes
\* every handler; a dispatched worker sends its segue in the end.
SpecLive ==
    /\ Init
    /\ [][NextLive]_vars
    /\ WF_vars(Resumptions(FALSE))
    /\ WF_vars(\E t \in Tasks, id \in 1..MaxRuns, output \in OutputTexts :
                  workerSegue(t, id, output))

\* Several runs of a chain side by side: requests arrive at any time and
\* their handlers interleave.
NextPair ==
    \/ \E t \in Tasks :
          trigger(t, "lin2", "7", "http://client:50052", FALSE, MaxPair)
    \/ \E t \in Tasks, id \in 1..MaxPair : segue(t, nanoid(id), "1", FALSE)
    \/ \E id \in 1..MaxPair : crash(id, FALSE)
    \/ Resumptions(FALSE)

SpecPair == Init /\ [][NextPair]_vars

\* Requests on the chains are processed one at a time, and the playlist.save
\* of a segue may be rejected: the segue is then interrupted between its
\* two writes and throws.
NextReplay ==
    \/ \E t \in Tasks, slug \in ChainSlugs :
          trigger(t, slug, "7", "http://client:50052", TRUE, MaxRuns)
    \/ \E t \in Tasks, slug \in RunSlugs, output \in {"1", "2"} :
          segue(t, slug, output, TRUE)
    \/ \E t \in Tasks : segue_playlistSave(t, TRUE)
    \/ Resumptions(FALSE)

SpecReplay == Init /\ [][NextReplay]_vars

\* The strategies whose links lead out of their slots, and a chain.
EdgeSlugs == {"lin2", "dangling", "noroot"}

\* Requests are processed one at a time on these strategies, with either
\* origin, with outputs that parse and that do not, and with crashes.
NextEdge ==
    \/ \E t \in Ready(TRUE), slug \in EdgeSlugs, origin \in Origins :
          trigger(t, slug, "7", origin, TRUE, MaxRuns)
    \/ \E t \in Ready(TRUE), slug \in RunSlugs, output \in {"1", "{"} :
          segue(t, slug, output, TRUE)
    \/ \E id \in 1..MaxRuns : crash(id, TRUE)
    \/ Resumptions(FALSE)

SpecEdge == Init /\ [][NextEdge]_vars

\* The process is started in any environment; requests on a chain are
\* processed one at a time.
NextTalkback ==
    \/ \E t \in Ready(TRUE) :
          trigger(t, "lin2", "7", "http://client:50052", TRUE, MaxRuns)
    \/ \E t \in Ready(TRUE), slug \in RunSlugs : segue(t, slug, "1", TRUE)
    \/ Resumptions(FALSE)

InitTalkback == Started /\ env \in Environments

SpecTalkback == InitTalkback /\ [][NextTalkback]_vars

\* One run of the chain of three slots: requests are processed one at a
\* time, and the only segues are the reports of the workers that were
\* dispatched, each sent once or again.
NextWorkers ==
    \/ \E t \in Ready(TRUE) :
          trigger(t, "lin3", "7", "http://client:50052", TRUE, 1)
    \/ \E t \in Ready(TRUE), id \in 1..MaxRuns, slot \in 1..3 :
          workerReports(t, id, slot, TRUE)
    \/ Resumptions(FALSE)

SpecWorkers == Init /\ [][NextWorkers]_vars

\* ----------------------------------------------------------- properties

\* What a property says about a strategy is read off the catalog without
\* the operators of the handlers.
SlotOf(slots, id) == CHOOSE i \in DOMAIN slots : slots[i].id = id

HasSlot(slots, id) == \E i \in DOMAIN slots : slots[i].id = id

StrategyOf(id) ==
    strategies[CHOOSE slug \in DOMAIN strategies :
                   strategies[slug].id = playlists[id].strategies_id]

\* The slot ids from `id` on along default_next_slot_id, at most `fuel`.
RECURSIVE ChainFrom(_, _, _)
ChainFrom(slots, id, fuel) ==
    IF fuel = 0 \/ id = NULL \/ ~HasSlot(slots, id) THEN <<>>
    ELSE <<id>> \o ChainFrom(slots, slots[SlotOf(slots, id)].default_next_slot_id,
                             fuel - 1)

Chain(strategy) == ChainFrom(strategy.slots, strategy.root_slot, Len(strategy.slots))

\* The strategy is a linear chain S1 -> ... -> SN -> null over all its slots.
IsLinearChain(strategy) ==
    /\ Len(Chain(strategy)) = Len(strategy.slots)
    /\ strategy.slots[SlotOf(strategy.slots, Chain(strategy)[Len(strategy.slots)])]
           .default_next_slot_id = NULL

\* The stored output of the slot `slot` of run `id`.
OutputOf(id, slot) ==
    contexts[id].sequence[SlotOf(contexts[id].sequence, slot)].output

\* The run `id` is of a linear chain, it has its context, and no call on
\* it has failed and nothing has crashed it.
CleanLinearRun(id) ==
    /\ id \in DOMAIN playlists
    /\ id \in DOMAIN contexts
    /\ IsLinearChain(StrategyOf(id))
    /\ Disturbances(id) = 0

\* C1: on a run of a linear chain S1 -> ... -> SN, with requests processed
\* one at a time and no call failing, the row is CREATED until trigger has
\* set it RUNNING; after trigger and k segues that returned the status is
\* RUNNING and current_slot_id is S(k+1) while k < N, and COMPLETE and null
\* when k = N; the stored output of Si is the i-th submitted output for
\* i <= k and not set for i > k; and the first call that fails on such a
\* run, once its context is stored, is a segue whose output does not parse
\* or a segue after the N-th.
C1_LinearChainRun ==
    \A id \in DOMAIN playlists :
        LET chain == Chain(StrategyOf(id))
            N == Len(chain)
            k == Len(At(submitted, id))
        IN  /\ (IsLinearChain(StrategyOf(id)) /\ Disturbances(id) = 0
                  /\ \E t \in Tasks : /\ tasks[t].op = "trigger"
                                      /\ RunOf(tasks[t]) = id
                                      /\ tasks[t].pc \in {"context.create",
                                                          "playlist.update"})
               => /\ playlists[id].status = CREATED
                  /\ playlists[id].current_slot_id = chain[1]
            /\ (CleanLinearRun(id) /\ Quiescent)
               => /\ k <= N
                  /\ playlists[id].status = IF k < N THEN RUNNING ELSE COMPLETE
                  /\ playlists[id].current_slot_id =
                         IF k < N THEN chain[k + 1] ELSE NULL
                  /\ \A i \in 1..N :
                         OutputOf(id, chain[i]) =
                             IF i <= k THEN <<submitted[id][i]>> ELSE <<>>
            /\ (IsLinearChain(StrategyOf(id)) /\ id \in DOMAIN contexts
                  /\ Disturbances(id) = 1 /\ last.id = id /\ last.result = "error")
               => /\ last.op = "segue"
                  /\ \/ last.error = "SyntaxError"
                     \/ last.error = "TypeError" /\ k = N

\* A run of the chain of three slots has completed by trigger and three
\* segues, none of which failed.
C1_Witness ==
    \E id \in DOMAIN playlists :
        /\ CleanLinearRun(id)
        /\ Quiescent
        /\ Len(Chain(StrategyOf(id))) = 3
        /\ Len(At(submitted, id)) = 3
        /\ submitted[id][1] # submitted[id][2]
        /\ playlists[id].status = COMPLETE

\* C2: whenever no trigger, segue or crash is being processed, a run has
\* the status COMPLETE exactly when its current_slot_id is null.
C2_CompleteIffNoCurrentSlot ==
    Quiescent =>
        \A id \in DOMAIN playlists :
            playlists[id].status = COMPLETE <=> playlists[id].current_slot_id = NULL

\* The stores as the last request found them hold the run of the last call
\* as completed: COMPLETE and no current slot.
CompletedBefore(id) ==
    /\ id \in DOMAIN before.playlists
    /\ before.playlists[id].status = COMPLETE
    /\ before.playlists[id].current_slot_id = NULL

\* C3: with requests processed one at a time, a segue on a run that has
\* completed (COMPLETE, no current slot) fails with an error and leaves the
\* run's row and every stored output as they were.
C3_SegueAfterCompletionFails ==
    (last.op = "segue" /\ CompletedBefore(last.id))
        => /\ last.result = "error"
           /\ last.error \in {"TypeError", "SyntaxError"}
           /\ playlists = before.playlists
           /\ contexts = before.contexts

\* A segue on a completed run, whose outputs are all stored, has thrown.
C3_Witness ==
    /\ last.op = "segue"
    /\ CompletedBefore(last.id)
    /\ last.error = "TypeError"
    /\ \A i \in DOMAIN contexts[last.id].sequence :
           contexts[last.id].sequence[i].output # <<>>

\* C4: no step of a segue changes the status or the current_slot_id of a
\* run whose stored status is COMPLETE, whatever segues race on it.
C4_CompleteIsTerminalForSegue ==
    [][\A id \in DOMAIN playlists :
          (/\ playlists[id].status = COMPLETE
           /\ \E t \in Tasks : tasks[t].op = "segue" /\ tasks'[t] # tasks[t])
          => /\ playlists'[id].status = COMPLETE
             /\ playlists'[id].current_slot_id = playlists[id].current_slot_id]_vars

\* C5: with requests processed one at a time, a trigger whose slug names no
\* strategy fails with the not-found error and leaves the Run Store, the
\* Context Store and the dispatches as they were.
C5_UnknownStrategyCreatesNothing ==
    (last.op = "trigger" /\ last.slug \notin DOMAIN strategies)
        => /\ last.result = "error"
           /\ last.error = "StrategyNotFound"
           /\ playlists = before.playlists
           /\ contexts = before.contexts
           /\ dispatches = before.dispatches

\* A trigger with an unknown slug has failed.
C5_Witness ==
    /\ last.op = "trigger"
    /\ last.slug \notin DOMAIN strategies
    /\ last.result = "error"

\* The stores as the last request found them hold no playlist with `slug`.
NoPlaylistBefore(slug) ==
    \A id \in DOMAIN before.playlists : before.playlists[id].slug # slug

\* The stores as the last request found them hold the playlist `id` but no
\* context of it.
NoContextBefore(id) ==
    id \in DOMAIN before.playlists /\ id \notin DOMAIN before.contexts

\* C6: with requests processed one at a time, a segue whose slug matches no
\* playlist, or whose playlist has no context, fails with the not-found
\* error of the missing record, leaves the stores as they were, dispatches
\* no worker and calls no deliver.
C6_SegueNotFoundChangesNothing ==
    (last.op = "segue" /\ (NoPlaylistBefore(last.slug) \/ NoContextBefore(last.id)))
        => /\ last.result = "error"
           /\ last.error = IF NoPlaylistBefore(last.slug)
                           THEN "PlaylistNotFound" ELSE "ContextNotFound"
           /\ playlists = before.playlists
           /\ contexts = before.contexts
           /\ dispatches = before.dispatches
           /\ last.worker = "none"
           /\ ~last.deliver
           /\ delivered.call = 0 \/ delivered.call # last.call

\* A segue on a playlist that has no context has failed.
C6_Witness ==
    /\ last.op = "segue"
    /\ NoContextBefore(last.id)
    /\ last.error = "ContextNotFound"

\* C7: after a trigger has returned or thrown, a Playlist row exists exactly
\* when its context exists.
C7_RowIffContext ==
    last.op = "trigger" => DOMAIN playlists = DOMAIN contexts

\* The status and current slot a segue leaves on the run `id`, from the
\* stores as the request found them.
NextSlotBefore(id) ==
    LET sequence == before.contexts[id].sequence
    IN  sequence[SlotOf(sequence, before.playlists[id].current_slot_id)]
            .default_next_slot_id

AdvancedFromBefore(id) ==
    /\ playlists[id].current_slot_id = NextSlotBefore(id)
    /\ playlists[id].status = IF NextSlotBefore(id) = NULL THEN COMPLETE ELSE RUNNING

\* C8: with requests processed one at a time, when the deliver of a segue
\* fails (the origin does not parse, no client can be built, the Deliver
\* call errors) the segue has returned success and the run's status and
\* current slot are advanced as they are when the origin answers.
C8_DeliverFailureDoesNotFailSegue ==
    (last.op = "segue" /\ delivered.call = last.call /\ delivered.call # 0)
        => /\ last.result = "ok"
           /\ last.deliver
           /\ AdvancedFromBefore(last.id)

\* The Deliver call of a segue that returned has ended in an error.
C8_Witness ==
    /\ last.op = "segue"
    /\ delivered.call = last.call
    /\ delivered.cause = "deliver"
    /\ last.result = "ok"

\* C9 as stated: the promise of deliver is never rejected.
C9_DeliverNeverRaises == delivered.value # "rejected"

\* C9: deliver raises `Invalid URL` when the origin of the run does not
\* parse as a URL and raises nothing else: when no client can be built or
\* the Deliver call ends in an error (connection or response) it completes
\* with null; and no step of deliver changes the Run Store or the Context
\* Store.
C9_DeliverRaisesOnlyInvalidURL ==
    /\ [](/\ delivered.cause \in {"createClient", "deliver"}
             => delivered.value = "null"
          /\ delivered.value = "rejected"
             => /\ delivered.cause = "InvalidURL"
                /\ getHostAndPort(contexts[delivered.id].origin) = <<>>
          /\ (delivered.call # 0 /\ getHostAndPort(contexts[delivered.id].origin) = <<>>)
             => delivered.value = "rejected")
    /\ [][(\E t \in Tasks : tasks[t].pc = "client.deliver" /\ tasks'[t] # tasks[t])
            => playlists' = playlists /\ contexts' = contexts]_vars

\* A deliver to a well-formed origin has completed with null because no
\* client could be built.
C9_Witness ==
    /\ delivered.cause = "createClient"
    /\ delivered.value = "null"

\* C10: with requests processed one at a time, a segue on a step that has a
\* successor returns success although the dispatch of the successor fails
\* (no client, or the performTask call errors): the submitted output is
\* stored on the step, current_slot_id is the successor and the status is
\* RUNNING.
C10_DispatchFailureDoesNotFailSegue ==
    (last.op = "segue" /\ last.worker \in {"createClient", "performTask"})
        => /\ last.result = "ok"
           /\ NextSlotBefore(last.id) # NULL
           /\ OutputOf(last.id, before.playlists[last.id].current_slot_id)
                  = <<submitted[last.id][Len(submitted[last.id])]>>
           /\ playlists[last.id].current_slot_id = NextSlotBefore(last.id)
           /\ playlists[last.id].status = RUNNING

\* A segue has returned after the performTask call of the successor ended
\* in an error.
C10_Witness ==
    /\ last.op = "segue"
    /\ last.worker = "performTask"
    /\ last.result = "ok"

\* The last call is a trigger that has created the row and the context of
\* its run.
CreatedBoth ==
    /\ last.op = "trigger"
    /\ last.id \in DOMAIN playlists /\ last.id \notin DOMAIN before.playlists
    /\ last.id \in DOMAIN contexts /\ last.id \notin DOMAIN before.contexts

\* What trigger gives its caller and leaves in the Run Store when it
\* returns.
ReturnsRunning ==
    /\ last.result = "ok"
    /\ last.run = playlists[last.id].slug
    /\ last.status = RUNNING
    /\ playlists[last.id].status = RUNNING
    /\ playlists[last.id].current_slot_id = strategies[last.slug].root_slot

C12_CurrentSlotInSequence ==
    \A id \in DOMAIN playlists \cap DOMAIN contexts :
        \/ playlists[id].current_slot_id = NULL
        \/ HasSlot(contexts[id].sequence, playlists[id].current_slot_id)

\* A sequence without the outputs: the slots, their plugins and links, in
\* order.
Structure(sequence) ==
    [i \in DOMAIN sequence |->
        [id |-> sequence[i].id, plugins_id |-> sequence[i].plugins_id,
         default_next_slot_id |-> sequence[i].default_next_slot_id]]

\* C13: with requests processed one at a time (trigger, segue and crash in
\* any order, segues not limited to one per dispatched worker, each
\* followed by its deliver) on strategies whose links do not loop, no call
\* changes the length of the sequence of an existing context, its slots or
\* their order, and no call changes an output that is set: only outputs
\* that are not set are filled in.
C13_SequenceFixedOutputsWrittenOnce ==
    \A id \in DOMAIN before.contexts :
        /\ id \in DOMAIN contexts
        /\ Structure(contexts[id].sequence) = Structure(before.contexts[id].sequence)
        /\ contexts[id].metadata = before.contexts[id].metadata
        /\ contexts[id].origin = before.contexts[id].origin
        /\ \A i \in DOMAIN before.contexts[id].sequence :
               before.contexts[id].sequence[i].output # <<>>
                   => contexts[id].sequence[i].output
                          = before.contexts[id].sequence[i].output

\* A segue has filled in the output of one slot of a sequence in which the
\* output of another slot was set already.
C13_Witness ==
    /\ last.op = "segue"
    /\ last.result = "ok"
    /\ \E i, j \in DOMAIN contexts[last.id].sequence :
           /\ before.contexts[last.id].sequence[i].output # <<>>
           /\ before.contexts[last.id].sequence[j].output = <<>>
           /\ contexts[last.id].sequence[j].output # <<>>

\* The texts among the inputs that are not JSON.
Malformed == {"{"}

\* C20: with requests processed one at a time, a segue whose output text
\* does not parse throws (run or context not found, or the SyntaxError of
\* JSON.parse, or the TypeError of the assignment where the current slot
\* is not in the sequence), and when it has thrown the playlists, the
\* contexts and the dispatches are what they were when it arrived, it has
\* called invokePlugin for no slot and it has not called deliver.
C20_SegueUnparsableOutputChangesNothing ==
    (last.op = "segue" /\ last.data \in Malformed)
        => /\ last.result = "error"
           /\ last.error \in {"PlaylistNotFound", "ContextNotFound",
                              "SyntaxError", "TypeError"}
           /\ Stores = before
           /\ last.worker = "none"
           /\ ~last.deliver

\* A segue with an output that does not parse has thrown the SyntaxError on
\* a running run whose current slot is in its sequence.
C20_Witness ==
    /\ last.op = "segue"
    /\ last.data \in Malformed
    /\ last.error = "SyntaxError"
    /\ last.id \in DOMAIN contexts
    /\ playlists[last.id].status = RUNNING
    /\ HasSlot(contexts[last.id].sequence, playlists[last.id].current_slot_id)

\* invokePlugin was called and gave null: without a client, or with an
\* error of the performTask call.
DispatchFailed == last.worker \in {"createClient", "performTask"}

\* C15: with requests processed one at a time, a run has status FAILED only
\* where it had it when the last request arrived or where that request was
\* a crash of this run: trigger, run, segue and deliver never set it.  A
\* trigger or segue whose dispatch failed has returned and leaves its run
\* RUNNING, with the pointer at the slot it dispatched.
C15_FailedOnlyByCrash ==
    /\ \A id \in DOMAIN playlists :
           playlists[id].status = FAILED
               => \/ /\ id \in DOMAIN before.playlists
                     /\ before.playlists[id].status = FAILED
                  \/ /\ last.op = "crash"
                     /\ last.id = id
    /\ (last.op \in {"trigger", "segue"} /\ DispatchFailed)
           => /\ last.result = "ok"
              /\ playlists[last.id].status = RUNNING
              /\ playlists[last.id].current_slot_id # NULL
              /\ dispatches[last.id][Len(dispatches[last.id])]
                     = playlists[last.id].current_slot_id

\* The dispatch of the second slot has failed in a segue and the run, not
\* crashed so far, is RUNNING.
C15_Witness ==
    /\ last.op = "segue"
    /\ DispatchFailed
    /\ Disturbances(last.id) = 0
    /\ playlists[last.id].status = RUNNING

\* A segue for the run with this slug is being processed or was the last
\* call.
SegueFor(slug) ==
    \/ \E t \in Tasks : /\ tasks[t].op = "segue"
                        /\ InFlight(tasks[t])
                        /\ tasks[t].slug = slug
    \/ last.op = "segue" /\ last.slug = slug

\* C17: with requests processed one at a time, the row of a run that
\* existed when the last request arrived is what it was then (status and
\* pointer) unless that request is a segue with the slug of the run or a
\* crash of the run: no other call, no callback of performTask or Deliver
\* and no step without a request changes it, so a run whose dispatch
\* failed or whose worker sends no segue stays RUNNING at the same slot.
\* (The one scheduled job of the service, backupDatabase, dumps the
\* database and writes to no table.)
C17_StalledRunStaysStalled ==
    \A id \in DOMAIN before.playlists :
        \/ /\ id \in DOMAIN playlists
           /\ playlists[id] = before.playlists[id]
        \/ SegueFor(before.playlists[id].slug)
        \/ last.op = "crash" /\ last.id = id

\* A run is RUNNING with a dispatch that no segue has answered, and a
\* request that is neither a segue nor a crash of it has been processed.
C17_Witness ==
    /\ last.op \in {"trigger", "segue"}
    /\ last.result = "error"
    /\ \E id \in DOMAIN before.playlists :
           /\ ~SegueFor(playlists[id].slug)
           /\ playlists[id].status = RUNNING
           /\ Len(At(dispatches, id)) > Len(At(submitted, id))

\* C14: with requests processed one at a time and the catalog changing at
\* any moment, the sequence a trigger has stored has the ids, plugins and
\* links of the slots of the strategy as it was when the trigger arrived,
\* in the same order and with no output; no call and no change of the
\* catalog changes the ids, plugins, links or order of a stored sequence;
\* and a segue that has returned has set the pointer to the link that the
\* stored sequence gave for the slot that was current, whatever the catalog
\* says by then.
C14_SequenceIsStrategyAtTrigger ==
    /\ CreatedBoth
           => /\ Structure(contexts[last.id].sequence)
                     = Structure(before.strategies[last.slug].slots)
              /\ \A i \in DOMAIN contexts[last.id].sequence :
                     contexts[last.id].sequence[i].output = <<>>
    /\ \A id \in DOMAIN before.contexts :
           /\ id \in DOMAIN contexts
           /\ Structure(contexts[id].sequence)
                  = Structure(before.contexts[id].sequence)
    /\ (last.op = "segue" /\ last.result = "ok") => AdvancedFromBefore(last.id)

\* A segue has returned on a run whose strategy was changed before the
\* segue arrived, and the pointer it has set is not the link the catalog
\* has for the slot that was current.
C14_Witness ==
    /\ last.op = "segue"
    /\ last.result = "ok"
    /\ before.strategies = strategies
    /\ LET slots == StrategyOf(last.id).slots
           current == before.playlists[last.id].current_slot_id
       IN  /\ Structure(contexts[last.id].sequence) # Structure(slots)
           /\ HasSlot(slots, current)
           /\ slots[SlotOf(slots, current)].default_next_slot_id
                  # playlists[last.id].current_slot_id

\* Two segues for the run last.id that read the same row have both
\* finished and no request has arrived since: the first got the next call
\* number, the second none, and both were counted.
RaceOver ==
    /\ Quiescent
    /\ last.op = "segue"
    /\ last.id # 0
    /\ last.call # ops

\* The step saves the context of run `id` for handler t: it sets the
\* output of the slot the handler read as current to the output of its
\* segue and keeps the rest of the stored document.
SavesOutput(t, id) ==
    /\ tasks[t].pc = "context.save"
    /\ tasks'[t].pc = "playlist.save"
    /\ RunOf(tasks[t]) = id
    /\ contexts'[id] =
           [contexts[id] EXCEPT
               !.sequence[SlotOf(contexts[id].sequence,
                                 tasks[t].previous[1].current_slot_id)].output =
                   JSONParse(tasks[t].data)]

\* C16: on a chain, with two segues for a run that read the same row with
\* a current slot S (outputs that are numbers), processed concurrently and
\* nothing else: every save of a context sets the output of the slot its
\* handler read to the output of its segue, whatever is stored there, and
\* no other step changes a stored context, so the stored output of S is
\* that of the save that came last; and when both have finished both have
\* returned success, the pointer is at the slot S links to (the run is
\* COMPLETE with a null pointer where S links to none) and the output of S
\* is one of the two submitted.
C16_ConcurrentSeguesLastWriteWins ==
    /\ [](RaceOver /\ before.playlists[last.id].current_slot_id # NULL
            => /\ last.result = "ok"
               /\ AdvancedFromBefore(last.id)
               /\ Len(submitted[last.id]) >= 2
               /\ LET n == Len(submitted[last.id])
                  IN  OutputOf(last.id, before.playlists[last.id].current_slot_id)
                          \in {<<submitted[last.id][n]>>, <<submitted[last.id][n - 1]>>})
    /\ [][/\ \A t \in Tasks :
               (tasks[t].pc = "context.save" /\ tasks'[t].pc = "playlist.save")
                   => SavesOutput(t, RunOf(tasks[t]))
          /\ \A id \in DOMAIN contexts :
               contexts'[id] # contexts[id] => \E t \in Tasks : SavesOutput(t, id)]_vars

\* Two segues with different outputs have read the same row and both have
\* finished; the stored output is that of the one that returned first,
\* whose save of the context came last.
C16_Witness ==
    /\ RaceOver
    /\ before.playlists[last.id].current_slot_id # NULL
    /\ NextSlotBefore(last.id) # NULL
    /\ OutputOf(last.id, before.playlists[last.id].current_slot_id)
           # JSONParse(last.data)

\* The run has been started: its row and its context are stored.
Triggered(id) == id \in DOMAIN playlists /\ id \in DOMAIN contexts

Finished(id) ==
    /\ id \in DOMAIN playlists
    /\ playlists[id].status = COMPLETE
    /\ playlists[id].current_slot_id = NULL

\* No dispatch has failed in the call that returned last.
DispatchReaches == ~DispatchFailed

\* No segue with an output that does not parse is being processed.
OutputsParse ==
    \A t \in Tasks : tasks[t].op = "segue" => tasks[t].data \notin Malformed

\* C18 as stated: on a chain, with stores that answer, handlers that are
\* resumed, every dispatch reaching its worker and every dispatched worker
\* sending exactly one segue, a run that has been started is COMPLETE with
\* a null pointer in the end.
C18_TriggeredRunCompletes ==
    []DispatchReaches
        => \A id \in 1..MaxRuns : Triggered(id) ~> Finished(id)

\* C18: on a chain, with stores that answer, handlers that are resumed,
\* every dispatch reaching its worker and every dispatched worker sending
\* exactly one segue whose output parses, a run that has been started is
\* COMPLETE with a null pointer in the end.  (A worker whose one segue
\* carries an output that does not parse has sent it: the segue throws and
\* the run stays RUNNING at that slot.)
C18_TriggeredRunCompletesIfOutputsParse ==
    ([]DispatchReaches /\ []OutputsParse)
        => \A id \in 1..MaxRuns : Triggered(id) ~> Finished(id)

\* A run of the chain of three slots is COMPLETE after three dispatches and
\* the three segues of their workers.
C18_Witness ==
    /\ Finished(1)
    /\ Len(At(dispatches, 1)) = 3
    /\ Len(At(submitted, 1)) = 3
    /\ Disturbances(1) = 0

\* The run a handler acts on: the one a segue names by its slug, the one a
\* trigger has created.
TargetOf(task) ==
    IF task.op = "segue"
    THEN IF getPlaylist(task.slug) = <<>> THEN 0 ELSE getPlaylist(task.slug)[1].id
    ELSE RunOf(task)

\* The step belongs to a call on run `id`: a handler of a call on it moves,
\* or crash is called with it.
ActsOn(id) ==
    \/ \E t \in Tasks : tasks'[t] # tasks[t] /\ TargetOf(tasks[t]) = id
    \/ tasks' = tasks /\ last'.op = "crash" /\ last'.id = id

\* C19: with runs side by side and their handlers interleaving in any
\* order, a step that changes the row or the context of a run belongs to a
\* trigger, segue, crash or deliver on that run: every step of a call on a
\* run leaves the row and the context of every other run as they are.
C19_RunsDoNotInterfere ==
    [][\A id \in DOMAIN playlists \cup DOMAIN contexts :
          (\/ id \notin DOMAIN playlists'
           \/ At(playlists', id) # At(playlists, id)
           \/ At(contexts', id) # At(contexts, id))
              => ActsOn(id)]_vars

\* Two runs of the same chain side by side: the first crashed at its first
\* slot with no output stored, the second advanced by a segue.
C19_Witness ==
    /\ Len(playlists) = 2
    /\ DOMAIN contexts = {1, 2}
    /\ playlists[1].status = FAILED
    /\ playlists[1].current_slot_id = Catalog["lin2"].root_slot
    /\ OutputOf(1, playlists[1].current_slot_id) = <<>>
    /\ playlists[2].status = RUNNING
    /\ playlists[2].current_slot_id # Catalog["lin2"].root_slot
    /\ OutputOf(2, Catalog["lin2"].root_slot) # <<>>

\* The origins among the inputs that are not URLs.
MalformedOrigins == {"client"}

\* C21: with requests processed one at a time, a trigger with an origin
\* that is not a URL stores the run and its context, calls no deliver and
\* ends as a trigger with any other origin does (RUNNING with the first
\* slot dispatched, or `Current slot not found` where the root slot is not
\* a slot of the strategy); an `Invalid URL` arises only in the deliver of
\* a segue that has returned success; and a segue that has returned on
\* such a run has called deliver, which was rejected with `Invalid URL` at
\* once (no Deliver call is open for it), with the output stored on the
\* slot that was current and the pointer advanced.
C21_MalformedOriginFailsAtDeliver ==
    /\ (CreatedBoth /\ contexts[last.id].origin \in MalformedOrigins)
           => /\ ~last.deliver
              /\ delivered.call # last.call
              /\ IF HasSlot(strategies[last.slug].slots, strategies[last.slug].root_slot)
                 THEN ReturnsRunning /\ last.worker # "none"
                 ELSE last.result = "error" /\ last.error = "CurrentSlotNotFound"
    /\ delivered.cause = "InvalidURL"
           => /\ last.op = "segue"
              /\ last.result = "ok"
              /\ delivered.call = last.call
              /\ contexts[last.id].origin \in MalformedOrigins
    /\ (/\ last.op = "segue"
        /\ last.result = "ok"
        /\ contexts[last.id].origin \in MalformedOrigins)
           => /\ last.deliver
              /\ \A t \in Tasks :
                    ~(tasks[t].pc = "client.deliver" /\ tasks[t].call = last.call)
              /\ delivered.call = last.call
                     => delivered = [call |-> last.call, id |-> last.id,
                                     cause |-> "InvalidURL", value |-> "rejected"]
              /\ AdvancedFromBefore(last.id)
              /\ OutputOf(last.id, before.playlists[last.id].current_slot_id)
                     = JSONParse(last.data)

\* A run triggered with an origin that is not a URL has had two slots
\* dispatched, and the deliver of its segue was rejected.
C21_Witness ==
    /\ last.op = "segue"
    /\ last.result = "ok"
    /\ contexts[last.id].origin \in MalformedOrigins
    /\ delivered.cause = "InvalidURL"
    /\ Len(dispatches[last.id]) = 2

\* The Deliver call of the call numbered `call` is open.
DeliverOpen(call) ==
    \E t \in Tasks : tasks[t].pc = "client.deliver" /\ tasks[t].call = call

\* C22: with requests processed one at a time, a segue that has returned
\* success has called deliver once, whether it dispatched a next slot or
\* completed the run: its promise is not both open and settled, and the
\* playlist handed to it is the stored row, with the pointer and the status
\* the segue has set.  A segue that has thrown and a trigger have called no
\* deliver.
C22_SegueDeliversOnce ==
    /\ (last.op = "segue" /\ last.result = "ok")
           => /\ last.deliver
              /\ last.payload = <<playlists[last.id]>>
              /\ AdvancedFromBefore(last.id)
              /\ ~(DeliverOpen(last.call) /\ delivered.call = last.call)
    /\ (last.op = "trigger" \/ last.result = "error")
           => /\ ~last.deliver
              /\ last.payload = <<>>
              /\ last.call # 0 => ~DeliverOpen(last.call) /\ delivered.call # last.call

\* A segue has completed the run and its Deliver call is open.
C22_Witness ==
    /\ last.op = "segue"
    /\ last.result = "ok"
    /\ playlists[last.id].status = COMPLETE
    /\ DeliverOpen(last.call)

\* C23: whatever triggers, segues, delivers and crashes have run, and however
\* their handlers interleave, the strategies and their slots are those of
\* the catalog as it was: no slot of the catalog carries an output, also
\* where a segue has written one into the run's copy of that slot.
C23_CatalogNeverWritten ==
    /\ strategies = Catalog
    /\ \A slug \in DOMAIN strategies : \A i \in DOMAIN strategies[slug].slots :
          DOMAIN strategies[slug].slots[i] = {"id", "plugins_id", "default_next_slot_id"}

\* A run has been crashed after a segue stored an output in its copy of a
\* slot, while another run of the same strategy is stored.
C23_Witness ==
    \E id, other \in DOMAIN playlists :
       /\ playlists[id].status = FAILED
       /\ id \in DOMAIN contexts
       /\ \E i \in DOMAIN contexts[id].sequence : contexts[id].sequence[i].output # <<>>
       /\ other # id
       /\ other \in DOMAIN contexts

\* C24: however requests arrive and handlers interleave, every step (of a
\* trigger, a run, a segue, a deliver or a crash) leaves the metadata and the
\* origin of every stored context as they are, and a context that a step
\* creates holds the parsed metadata and the origin that the trigger
\* creating it was called with.
C24_MetadataAndOriginFixed ==
    [][\A id \in DOMAIN contexts' :
          IF id \in DOMAIN contexts
          THEN /\ contexts'[id].metadata = contexts[id].metadata
               /\ contexts'[id].origin = contexts[id].origin
          ELSE \E t \in Tasks :
                  /\ tasks[t].op = "trigger"
                  /\ tasks[t].pc = "context.create"
                  /\ tasks[t].playlist[1].id = id
                  /\ <<contexts'[id].metadata>> = JSONParse(tasks[t].data)
                  /\ contexts'[id].origin = tasks[t].origin]_vars

\* A run whose context was created with the origin that is not a URL was
\* crashed after a segue stored an output.
C24_Witness ==
    \E id \in DOMAIN contexts :
       /\ contexts[id].origin \in MalformedOrigins
       /\ contexts[id].metadata = 7
       /\ \E i \in DOMAIN contexts[id].sequence : contexts[id].sequence[i].output # <<>>
       /\ playlists[id].status = FAILED

\* Handler t calls run() in this step: start() after context.create, or
\* segue after playlist.save where there is a next slot.
CallsRun(t) ==
    /\ tasks'[t] # tasks[t]
    /\ \/ tasks[t].pc = "context.create" /\ DOMAIN contexts' # DOMAIN contexts
       \/ tasks[t].pc = "playlist.save" /\ tasks[t].playlist[1].current_slot_id # NULL

\* In this step pluginsService.run is called for the run of handler t: the
\* current slot is dispatched, or is not found in the sequence.
AttemptsDispatch(t) ==
    LET id == tasks[t].playlist[1].id
    IN  \/ At(dispatches', id)
              = Append(At(dispatches, id), tasks[t].playlist[1].current_slot_id)
        \/ last'.id = id /\ last'.error = "CurrentSlotNotFound"

\* C25: with requests processed one at a time, a handler waits for the
\* update of the status only where run() found a status other than RUNNING;
\* run() called on a RUNNING run writes nothing, leaves the stored status
\* RUNNING and attempts the dispatch of the current slot in the same step;
\* called on a run with another status it issues the update, which sets the
\* stored status RUNNING, is not issued again, and is followed by the
\* attempt to dispatch the current slot.
C25_RunWritesRunningOnlyIfNotRunning ==
    [][\A t \in Tasks :
          /\ (tasks'[t].pc = "playlist.update" /\ tasks[t].pc # "playlist.update")
                 => CallsRun(t) /\ tasks[t].playlist[1].status # RUNNING
          /\ (CallsRun(t) /\ tasks[t].playlist[1].status = RUNNING)
                 => /\ tasks'[t].pc # "playlist.update"
                    /\ playlists'[tasks[t].playlist[1].id].status = RUNNING
                    /\ AttemptsDispatch(t)
          /\ (CallsRun(t) /\ tasks[t].playlist[1].status # RUNNING)
                 => /\ tasks'[t].pc = "playlist.update"
                    /\ dispatches' = dispatches
          /\ (tasks[t].pc = "playlist.update" /\ tasks'[t] # tasks[t])
                 => /\ playlists'[tasks[t].playlist[1].id].status = RUNNING
                    /\ tasks'[t].pc # "playlist.update"
                    /\ AttemptsDispatch(t)]_vars

\* A segue on a run that was crashed after its first dispatch waits for the
\* update of the status.
C25_Witness ==
    \E t \in Tasks :
       /\ tasks[t].op = "segue"
       /\ tasks[t].pc = "playlist.update"
       /\ tasks[t].playlist[1].status = FAILED
       /\ tasks[t].playlist[1].current_slot_id # NULL
       /\ Len(At(dispatches, tasks[t].playlist[1].id)) = 1

\* C26: with requests processed one at a time, a step changes the status of
\* a stored run only from CREATED to RUNNING, from RUNNING to COMPLETE, or
\* from CREATED or RUNNING to FAILED by crash; the status of a run that is
\* COMPLETE or FAILED is changed by no step.
C26_StatusChangesAndTerminalStatuses ==
    [][\A id \in DOMAIN playlists :
          LET old == playlists[id].status
              new == playlists'[id].status
          IN  old # new
                 => /\ old \notin {COMPLETE, FAILED}
                    /\ \/ old = CREATED /\ new = RUNNING
                       \/ old = RUNNING /\ new = COMPLETE
                       \/ new = FAILED /\ last'.op = "crash" /\ last'.id = id]_vars

\* In the stores `stores` the run `id` has its context and its current slot
\* is set but is no slot of the sequence.
Stuck(stores, id) ==
    /\ id \in DOMAIN stores.playlists
    /\ id \in DOMAIN stores.contexts
    /\ stores.playlists[id].current_slot_id # NULL
    /\ ~HasSlot(stores.contexts[id].sequence, stores.playlists[id].current_slot_id)

\* C27: with requests processed one at a time, a trigger or a segue that
\* leaves its run with a current slot that is no slot of the sequence has
\* thrown `Current slot not found` to its caller; a call that has thrown it
\* has invoked no worker and called no deliver; and a later call on such a
\* run dispatches nothing and leaves the pointer: a segue on it throws
\* before run() is reached, and no performTask call is open for it.
C27_CurrentSlotNotFoundReachesCaller ==
    /\ last.error = "CurrentSlotNotFound"
           => /\ last.op \in {"trigger", "segue"}
              /\ last.result = "error"
              /\ last.worker = "none"
              /\ ~last.deliver
              /\ Stuck(Stores, last.id)
              /\ ~Stuck(before, last.id)
              /\ At(dispatches, last.id) = At(before.dispatches, last.id)
    /\ (last.result # "none" /\ Stuck(Stores, last.id) /\ ~Stuck(before, last.id))
           => last.error = "CurrentSlotNotFound"
    /\ \A id \in DOMAIN playlists :
          Stuck(before, id)
              => /\ At(dispatches, id) = At(before.dispatches, id)
                 /\ playlists[id].current_slot_id = before.playlists[id].current_slot_id
                 /\ (last.op = "segue" /\ last.id = id /\ last.result # "none")
                        => /\ last.result = "error"
                           /\ last.error \in AssignErrors(0, last.data)
    /\ \A t \in Tasks :
          tasks[t].pc = "client.performTask" => ~Stuck(Stores, tasks[t].playlist[1].id)

\* A segue has moved the pointer to a slot that is not in the sequence and
\* has thrown `Current slot not found`.
C27_Witness ==
    /\ last.op = "segue"
    /\ last.error = "CurrentSlotNotFound"
    /\ OutputOf(last.id, before.playlists[last.id].current_slot_id) # <<>>

\* The slot of the dispatch of run `id` made last in the dispatches `d`.
LastDispatch(d, id) == d[id][Len(d[id])]

\* The handler of a segue takes a step.
SegueSteps(t) == tasks[t].op = "segue" /\ tasks'[t] # tasks[t]

\* C28: where the only segues are those of dispatched workers, one for each
\* dispatch, the steps of a segue come in the order context write, row
\* write, dispatch, deliver: the context write changes the output of the
\* current slot and nothing else, with no dispatch and no deliver; the row
\* write leaves the context, and the next slot is dispatched in that step
\* with the stored row RUNNING at that slot, deliver not being called while
\* the performTask call is open; deliver is called when that call is over
\* or there is no next slot.  Every dispatch, that of a trigger included,
\* is of the slot the stored row points at, and a segue of the worker that
\* arrives while the dispatching handler is suspended is recorded against
\* the slot of that dispatch.
C28_SegueOrderOfEffects ==
    [][/\ \A t \in Tasks :
            LET id == RunOf(tasks[t])
                slot == tasks[t].currentSlot
            IN  /\ (SegueSteps(t) /\ tasks[t].pc = "context.save")
                       => /\ contexts'[id].sequence[slot].output = JSONParse(tasks[t].data)
                          /\ contexts[id].sequence[slot].id = LastDispatch(dispatches, id)
                          /\ Structure(contexts'[id].sequence) = Structure(contexts[id].sequence)
                          /\ playlists' = playlists
                          /\ dispatches' = dispatches
                          /\ tasks'[t].pc = "playlist.save"
                          /\ tasks'[t].delivery.value = "none"
                /\ (SegueSteps(t) /\ tasks[t].pc = "playlist.save")
                       => /\ contexts' = contexts
                          /\ contexts[id].sequence[slot].output = JSONParse(tasks[t].data)
                          /\ playlists[id].current_slot_id = contexts[id].sequence[slot].id
                          /\ playlists'[id].current_slot_id
                                 = contexts[id].sequence[slot].default_next_slot_id
                          /\ IF playlists'[id].current_slot_id = NULL
                             THEN /\ dispatches' = dispatches
                                  /\ playlists'[id].status = COMPLETE
                                  /\ last'.id = id /\ last'.deliver
                             ELSE /\ dispatches'[id] = Append(dispatches[id],
                                                              playlists'[id].current_slot_id)
                                  /\ playlists'[id].status = RUNNING
                                  /\ tasks'[t].pc = "client.performTask"
                                         => tasks'[t].delivery.value = "none"
                                  /\ tasks'[t].pc # "client.performTask"
                                         => last'.id = id /\ last'.deliver
                /\ (SegueSteps(t) /\ tasks[t].pc = "client.performTask")
                       => /\ contexts' = contexts
                          /\ playlists' = playlists
                          /\ dispatches' = dispatches
                          /\ tasks[t].delivery.value = "none"
                          /\ last'.id = id /\ last'.deliver
       /\ \A id \in DOMAIN dispatches' :
            At(dispatches', id) # At(dispatches, id)
                => /\ playlists'[id].current_slot_id = LastDispatch(dispatches', id)
                   /\ playlists'[id].status = RUNNING
       /\ \A t \in Tasks :
            (tasks'[t].op = "segue" /\ tasks'[t].pc = "context.save")
                => contexts'[RunOf(tasks'[t])].sequence[tasks'[t].currentSlot].id
                       = LastDispatch(dispatches', RunOf(tasks'[t]))]_vars

\* The segue of the worker of the second slot is about to write its output
\* while the handler that dispatched that slot waits for the answer of
\* performTask.
C28_Witness ==
    \E t, u \in Tasks :
       /\ tasks[t].op = "segue" /\ tasks[t].pc = "client.performTask"
       /\ tasks[u].op = "segue" /\ tasks[u].pc = "context.save"
       /\ RunOf(tasks[u]) = RunOf(tasks[t])
       /\ contexts[RunOf(tasks[u])].sequence[tasks[u].currentSlot].id
              = tasks[t].playlist[1].current_slot_id

\* The contexts of `stores` with `value` as the output of the current slot
\* of run `id`.
OutputSet(stores, id, value) ==
    LET sequence == stores.contexts[id].sequence
        slot == SlotOf(sequence, stores.playlists[id].current_slot_id)
    IN  [stores.contexts EXCEPT ![id].sequence[slot].output = value]

\* The playlists of `stores` with run `id` moved to the slot after its
\* current one, COMPLETE where there is none.
PointerMoved(stores, id) ==
    LET sequence == stores.contexts[id].sequence
        next == sequence[SlotOf(sequence, stores.playlists[id].current_slot_id)]
                    .default_next_slot_id
    IN  [stores.playlists EXCEPT
           ![id].current_slot_id = next,
           ![id].status = IF next = NULL THEN COMPLETE ELSE @]

\* The last call is a segue that was interrupted at playlist.save.
Interrupted == last.op = "segue" /\ last.error = "PersistenceError"

\* C29: with requests processed one at a time and a playlist.save that may
\* be rejected, a segue interrupted after its context write leaves the
\* stores as they were except for the output of the current slot, which is
\* set, and the pointer is not moved; no state has the pointer of a run
\* past a slot whose output is unset; and a segue that returns success,
\* the first or a repetition of an interrupted one, leaves the stores as the
\* stores before it with the output set and the pointer moved, which for a
\* repetition with the same output are the stores an uninterrupted segue
\* would have left: setting the output that is already set changes nothing.
C29_InterruptedSegueRecoverableByReplay ==
    /\ Interrupted
           => /\ contexts = OutputSet(before, last.id, JSONParse(last.data))
              /\ playlists = before.playlists
              /\ dispatches = before.dispatches
              /\ ~last.deliver
    /\ (last.op = "segue" /\ last.result = "ok")
           => /\ contexts = OutputSet(before, last.id, JSONParse(last.data))
              /\ playlists = PointerMoved(before, last.id)
              /\ OutputOf(last.id, before.playlists[last.id].current_slot_id)
                     = JSONParse(last.data)
    /\ Interrupted
           => LET again == [playlists |-> playlists, contexts |-> contexts]
              IN  /\ OutputSet(again, last.id, JSONParse(last.data))
                         = OutputSet(before, last.id, JSONParse(last.data))
                  /\ PointerMoved(again, last.id) = PointerMoved(before, last.id)
    /\ \A id \in DOMAIN playlists \cap DOMAIN contexts :
          \A i \in DOMAIN contexts[id].sequence :
             (/\ contexts[id].sequence[i].output = <<>>
              /\ contexts[id].sequence[i].default_next_slot_id # NULL)
                 => playlists[id].current_slot_id
                        # contexts[id].sequence[i].default_next_slot_id

\* A segue that was interrupted has been repeated with the same output: the
\* repetition has changed nothing in the context and has moved the pointer.
C29_Witness ==
    /\ last.op = "segue" /\ last.result = "ok"
    /\ Disturbances(last.id) = 1
    /\ contexts = before.contexts
    /\ playlists[last.id].current_slot_id # before.playlists[last.id].current_slot_id
    /\ Len(At(submitted, last.id)) = 1

\* C30: where the only segues of a run of a chain are those of its
\* dispatched workers, one for each dispatch, the slots dispatched so far
\* are the first slots of the chain in its order, each once, the entry slot
\* first; the output of every slot dispatched before the last one is
\* stored, and the stored pointer is at the slot dispatched last, or null
\* with the run COMPLETE and the whole chain dispatched: nothing is
\* dispatched after the segue of the last slot.
C30_DispatchInChainOrder ==
    \A id \in DOMAIN dispatches :
       LET chain == Chain(StrategyOf(id))
           n == Len(dispatches[id])
       IN  /\ n >= 1
           /\ n <= Len(chain)
           /\ dispatches[id] = SubSeq(chain, 1, n)
           /\ \A k \in 1..(n - 1) : OutputOf(id, chain[k]) # <<>>
           /\ \/ /\ playlists[id].current_slot_id = chain[n]
                 /\ playlists[id].status = RUNNING
              \/ /\ Finished(id)
                 /\ n = Len(chain)
                 /\ OutputOf(id, chain[n]) # <<>>

\* The three slots of the chain of three have been dispatched in order and
\* the run is COMPLETE.
C30_Witness ==
    \E id \in DOMAIN dispatches :
       /\ Finished(id)
       /\ dispatches[id] = <<1, 2, 3>>
       /\ \A k \in 1..3 : OutputOf(id, k) # <<>>

\* The position of `slot` in the chain, 0 where it is not in it.
Position(chain, slot) ==
    IF \E k \in DOMAIN chain : chain[k] = slot
    THEN CHOOSE k \in DOMAIN chain : chain[k] = slot
    ELSE 0

\* The outputs submitted for the run of handler t so far, in order: those
\* of the segues that returned and, where t is a segue, its own.
Answered(t) ==
    At(submitted, RunOf(tasks[t]))
        \o (IF tasks[t].op = "segue" THEN JSONParse(tasks[t].data) ELSE <<>>)

\* C31: with requests processed one at a time, while a performTask call is
\* open the payload it was given holds the stored row of the run, RUNNING
\* and with the dispatched slot as current slot, and the stored context of
\* the run, in which each slot before the dispatched one in the chain
\* carries the output submitted for it, in order, and the dispatched slot
\* carries none.
C31_WorkerPayloadCarriesPrecedingOutputs ==
    \A t \in Tasks :
       tasks[t].pc = "client.performTask" =>
          LET playlist == tasks[t].playlist[1]
              context == tasks[t].context[1]
              chain == Chain(StrategyOf(playlist.id))
              p == Position(chain, playlist.current_slot_id)
          IN  /\ playlist = playlists[playlist.id]
              /\ context = contexts[playlist.id]
              /\ playlist.status = RUNNING
              /\ p > 0
              /\ Len(Answered(t)) = p - 1
              /\ \A k \in 1..p :
                    context.sequence[SlotOf(context.sequence, chain[k])].output
                        = IF k < p THEN <<Answered(t)[k]>> ELSE <<>>

\* The third slot of a chain is being dispatched by a segue, after two
\* segues with different outputs.
C31_Witness ==
    \E t \in Tasks :
       /\ tasks[t].pc = "client.performTask"
       /\ tasks[t].op = "segue"
       /\ Position(Chain(StrategyOf(RunOf(tasks[t]))),
                   tasks[t].playlist[1].current_slot_id) = 3
       /\ Answered(t)[1] # Answered(t)[2]

\* C32: the talkback address of every open performTask call has
\* TALKBACK_FQDN as its host where TALKBACK_FQDN is set, and the local
\* address otherwise, whether SERVICE_FQDN is set or not.
C32_TalkbackHostIsTalkbackFqdn ==
    \A t \in Tasks :
       tasks[t].pc = "client.performTask" =>
          tasks[t].talkback =
             "http://"
                \o (IF env.TALKBACK_FQDN # <<>> THEN env.TALKBACK_FQDN[1]
                    ELSE getLocalIp(env))
                \o ":" \o ToString(grpcPort(env))

\* C33: every output stored in a slot of a run is the report of the worker
\* that this slot was dispatched to, also when a worker sends its report
\* again after the run has moved on.
C33_OutputsAttributedToTheirSlot ==
    \A id \in DOMAIN contexts :
       \A i \in DOMAIN contexts[id].sequence :
          contexts[id].sequence[i].output
              \in {<<>>, JSONParse(Report(contexts[id].sequence[i].id))}

\* C34: however the segues for a run interleave, no slot of the run is
\* dispatched twice.
C34_EachSlotDispatchedAtMostOnce ==
    \A id \in DOMAIN dispatches :
       \A j, k \in DOMAIN dispatches[id] :
          dispatches[id][j] = dispatches[id][k] => j = k

\* C35: however the segues for a run interleave, no step moves the stored
\* pointer of a run to a slot that comes earlier in the chain than the slot
\* it held, and a pointer that is null stays null.
C35_PointerOnlyMovesForward ==
    [][\A id \in DOMAIN playlists :
          LET chain == Chain(StrategyOf(id))
              old == playlists[id].current_slot_id
              new == playlists'[id].current_slot_id
          IN  /\ old = NULL => new = NULL
              /\ (old # NULL /\ new # NULL)
                    => Position(chain, new) >= Position(chain, old)]_vars

\* The outputs of run `id` follow its pointer: with the pointer at a slot,
\* every slot before it in the chain has its output set and that slot and
\* every later one has none; the run is COMPLETE only with every output set.
OutputsFollowPointer(id) ==
    LET chain == Chain(StrategyOf(id))
        p == Position(chain, playlists[id].current_slot_id)
    IN  /\ playlists[id].current_slot_id # NULL
              => /\ p > 0
                 /\ \A i \in DOMAIN chain :
                       (OutputOf(id, chain[i]) # <<>>) <=> (i < p)
        /\ playlists[id].status = COMPLETE
              => \A i \in DOMAIN chain : OutputOf(id, chain[i]) # <<>>

C37_FailedSegueChangesNothing ==
    (Quiescent /\ last.op = "segue" /\ last.result = "error")
        => /\ playlists = before.playlists
           /\ contexts = before.contexts

\* This step is crash(playlist) on the row `id`.
CrashStep(id) == ops' = ops + 1 /\ last'.op = "crash" /\ last'.id = id

\* C38: a crash of a run sets the status of its row to FAILED and leaves
\* every other column of the row, every other row, every context and the
\* catalog as they are; no handler moves in the step, so nothing is
\* dispatched and no Deliver call is made.  (updatedAt is not a column of
\* the rows here.)
C38_CrashChangesOnlyStatus ==
    [][\A id \in DOMAIN playlists :
          CrashStep(id)
             => /\ playlists' = [playlists EXCEPT ![id].status = FAILED]
                /\ contexts' = contexts
                /\ strategies' = strategies
                /\ dispatches' = dispatches
                /\ tasks' = tasks]_vars

\* A run was crashed at a slot, with an output stored, while a segue for it
\* was suspended, and the other run was still RUNNING.
C38_Witness ==
    /\ last.op = "crash"
    /\ playlists[last.id].status = FAILED
    /\ playlists[last.id].current_slot_id # NULL
    /\ last.id \in DOMAIN contexts
    /\ \E i \in DOMAIN contexts[last.id].sequence :
          contexts[last.id].sequence[i].output # <<>>
    /\ \E t \in Tasks : tasks[t].op = "segue" /\ InFlight(tasks[t])
                          /\ RunOf(tasks[t]) = last.id
    /\ \E other \in DOMAIN playlists : playlists[other].status = RUNNING

====
